---------------------------- MODULE Spec2Model ----------------------------
(***************************************************************************)
(* Model of the Quant Dashboard API (src/main.py): the indicator engine    *)
(* (calculate_bollinger_bands, calculate_macd, calculate_rsi and the       *)
(* rolling mean of get_sma) and the FastAPI request handlers around it.    *)
(*                                                                         *)
(* Numbers.  A pandas float is modelled as an exact rational or one of the *)
(* IEEE special values NaN, +inf, -inf:                                    *)
(*     [k |-> "num", n |-> numerator, d |-> denominator > 0]  (lowest terms)*)
(*     [k |-> "nan"], [k |-> "inf"], [k |-> "ninf"]   (n = 0, d = 1)       *)
(* Rounding error is abstracted away; the sign of a zero is not kept (it   *)
(* changes no result of this program: 0/-0 is NaN like 0/0, and x/-0 for   *)
(* x > 0 is -inf, for which 100 - 100/(1 + -inf) = 100 as for +inf).       *)
(***************************************************************************)
EXTENDS Integers, Sequences, FiniteSets, TLC

\* ------------------------------------------------------------------ bounds
\* Longest price series the provider returns in the model.
MaxLen == 4
\* Largest rolling window (SMA, Bollinger, RSI).
MaxWindow == 3
\* Largest EMA span (MACD fast, slow, signal).
MaxSpan == 2

\* Close prices a bar may carry.
Prices == {10, 11, 12}
\* Ticker symbols requested.
Tickers == {"AAPL", "MSFT"}
\* Values of the num_std query parameter.
NumStds == {1, 2}
\* date.today() on the server (day ordinal).
Todays == {1000}
\* Optional[date] = None
NoDate == [given |-> FALSE, day |-> 0]
SomeDate(d) == [given |-> TRUE, day |-> d]
\* start_date / end_date query parameters (day ordinals when given).
StartDates == {NoDate, SomeDate(600)}
EndDates == {NoDate, SomeDate(900)}
\* First calendar day of the table the provider answers with.
FirstDays == {704}

\* None as the value of a dict entry or of a missing one.
None == "None"

\* timedelta(days=365 ...): length of the default window.
DefaultDays == 365
\* HTTPException(status_code=404, ...)
HTTP_NOT_FOUND == 404

\* ------------------------------------------------------- float arithmetic
Abs(x) == IF x < 0 THEN -x ELSE x

RECURSIVE GCD(_, _)
GCD(a, b) == IF b = 0 THEN a ELSE GCD(b, a % b)

NaN  == [k |-> "nan",  n |-> 0, d |-> 1]
Inf  == [k |-> "inf",  n |-> 0, d |-> 1]
NInf == [k |-> "ninf", n |-> 0, d |-> 1]

\* The float n/d (d # 0), in lowest terms with a positive denominator.
Rat(n, d) ==
    LET s == IF d < 0 THEN -1 ELSE 1
        g == GCD(Abs(n), Abs(d))
    IN  [k |-> "num", n |-> (s * n) \div g, d |-> (s * d) \div g]

F(i) == [k |-> "num", n |-> i, d |-> 1]

IsNum(x) == x.k = "num"
Sign(x) == CASE x.k = "inf" -> 1
             [] x.k = "ninf" -> -1
             [] x.k = "num" -> (IF x.n > 0 THEN 1 ELSE IF x.n < 0 THEN -1 ELSE 0)
             [] OTHER -> 0

FNeg(x) == CASE x.k = "num" -> [k |-> "num", n |-> -x.n, d |-> x.d]
             [] x.k = "inf" -> NInf
             [] x.k = "ninf" -> Inf
             [] OTHER -> NaN

FAdd(a, b) ==
    CASE a.k = "nan" \/ b.k = "nan" -> NaN
      [] a.k = "num" /\ b.k = "num" ->
            LET g == GCD(a.d, b.d)
            IN  Rat(a.n * (b.d \div g) + b.n * (a.d \div g), (a.d \div g) * b.d)
      [] a.k = "num" -> b
      [] b.k = "num" -> a
      [] a.k = b.k -> a
      [] OTHER -> NaN            \* inf + -inf

FSub(a, b) == FAdd(a, FNeg(b))

FMul(a, b) ==
    CASE a.k = "nan" \/ b.k = "nan" -> NaN
      [] a.k = "num" /\ b.k = "num" ->
            LET g1 == GCD(Abs(a.n), b.d)
                g2 == GCD(Abs(b.n), a.d)
            IN  \* already in lowest terms: the operands are
                [k |-> "num", n |-> (a.n \div g1) * (b.n \div g2),
                 d |-> (a.d \div g2) * (b.d \div g1)]
      [] Sign(a) * Sign(b) > 0 -> Inf
      [] Sign(a) * Sign(b) < 0 -> NInf
      [] OTHER -> NaN            \* 0 * inf

FDiv(a, b) ==
    CASE a.k = "nan" \/ b.k = "nan" -> NaN
      [] a.k = "num" /\ b.k = "num" /\ b.n # 0 -> FMul(a, Rat(b.d, b.n))
      [] a.k = "num" /\ b.k = "num" ->        \* division by zero
            (IF a.n > 0 THEN Inf ELSE IF a.n < 0 THEN NInf ELSE NaN)
      [] a.k = "num" -> F(0)                   \* x / +-inf
      [] b.k = "num" -> (IF Sign(a) * (IF b.n < 0 THEN -1 ELSE 1) > 0 THEN Inf ELSE NInf)
      [] OTHER -> NaN            \* inf / inf

\* a < b on floats; any comparison with NaN is False.
FLt(a, b) ==
    CASE a.k = "nan" \/ b.k = "nan" -> FALSE
      [] a.k = "num" /\ b.k = "num" -> a.n * b.d < b.n * a.d
      [] a.k = "ninf" -> b.k # "ninf"
      [] b.k = "inf" -> a.k # "inf"
      [] OTHER -> FALSE

\* pd.isna(val): True for NaN only (an infinity is not NA).
isna(x) == x.k = "nan"
\* pd.notna(val)
notna(x) == ~isna(x)
\* np.isfinite(val)
isfinite(x) == x.k = "num"


\* ------------------------------------------------------ pandas primitives
\* A DataFrame is a sequence of bars [Date |-> Timestamp, Close |-> float] in
\* index order; a Series is a sequence of [idx |-> Timestamp, val |-> float].
\* The rolling and ewm inputs of this program never hold NaN (closes are
\* prices, gain and loss are filled), so NaN-skipping is not modelled.

Min(a, b) == IF a < b THEN a ELSE b

\* A series is held as a concrete array: every element is computed once, when
\* the series is built.
Materialize(s) == SubSeq(s, 1, Len(s))

\* data['Close']
Column(data) == Materialize([i \in 1..Len(data) |-> [idx |-> data[i].Date, val |-> data[i].Close]])

\* data.empty
empty(data) == Len(data) = 0

\* Elementwise series arithmetic (both operands share one index).
SeriesSub(a, b) == Materialize([i \in 1..Len(a) |-> [idx |-> a[i].idx, val |-> FSub(a[i].val, b[i].val)]])
SeriesDiv(a, b) == Materialize([i \in 1..Len(a) |-> [idx |-> a[i].idx, val |-> FDiv(a[i].val, b[i].val)]])
SeriesNeg(a) == Materialize([i \in 1..Len(a) |-> [idx |-> a[i].idx, val |-> FNeg(a[i].val)]])
\* scalar (op) series
ScalarAdd(c, a) == Materialize([i \in 1..Len(a) |-> [idx |-> a[i].idx, val |-> FAdd(c, a[i].val)]])
ScalarSub(c, a) == Materialize([i \in 1..Len(a) |-> [idx |-> a[i].idx, val |-> FSub(c, a[i].val)]])
ScalarDiv(c, a) == Materialize([i \in 1..Len(a) |-> [idx |-> a[i].idx, val |-> FDiv(c, a[i].val)]])

\* The window sums pandas keeps while sliding over vals, in one pass: add the
\* entering observation, remove the one that leaves (roll_mean's add_mean /
\* remove_mean).
RollStep(prev, vals, window, t) ==
    LET added == FAdd(IF t = 1 THEN F(0) ELSE prev[t - 1], vals[t])
    IN  Append(prev, IF t > window THEN FSub(added, vals[t - window]) ELSE added)

RECURSIVE RollSumsUpTo(_, _, _)
RollSumsUpTo(vals, window, t) ==
    IF t = 0 THEN << >> ELSE RollStep(RollSumsUpTo(vals, window, t - 1), vals, window, t)

\* RollSums(...)[t]: the sum of the window ending at position t.
RollSums(vals, window) == RollSumsUpTo(vals, window, Len(vals))

Values(s) == Materialize([t \in 1..Len(s) |-> s[t].val])
Squares(s) == Materialize([t \in 1..Len(s) |-> FMul(s[t].val, s[t].val)])

\* Observations in the window ending at position t.
RollCount(window, t) == Min(t, window)

\* Mutant of rolling_mean: min_periods is ignored, so a window that is not yet
\* full yields the average of what it holds.
rolling_mean_partial(s, window, min_periods) ==
    LET sums == RollSums(Values(s), window)
    IN  Materialize([t \in 1..Len(s) |->
            [idx |-> s[t].idx,
             val |-> FDiv(sums[t], F(RollCount(window, t)))]])

\* s.rolling(window=window, min_periods=min_periods).mean()
rolling_mean(s, window, min_periods) ==
    LET sums == RollSums(Values(s), window)
    IN  Materialize([t \in 1..Len(s) |->
            [idx |-> s[t].idx,
             val |-> IF RollCount(window, t) >= min_periods
                     THEN FDiv(sums[t], F(RollCount(window, t)))
                     ELSE NaN]])

\* Mutant of rolling_var: the population variance (ddof = 0).
rolling_var_population(s, window) ==
    LET sx == RollSums(Values(s), window)
        sxx == RollSums(Squares(s), window)
    IN  Materialize([t \in 1..Len(s) |->
            [idx |-> s[t].idx,
             val |-> LET nobs == RollCount(window, t)
                     IN  IF nobs >= window /\ nobs > 0
                         THEN FDiv(FSub(sxx[t], FDiv(FMul(sx[t], sx[t]), F(nobs))), F(nobs))
                         ELSE NaN]])

\* s.rolling(window=window).var(): min_periods = window, ddof = 1; NaN unless
\* the window holds at least min_periods and more than ddof observations.
rolling_var(s, window) ==
    LET sx == RollSums(Values(s), window)
        sxx == RollSums(Squares(s), window)
    IN  Materialize([t \in 1..Len(s) |->
            [idx |-> s[t].idx,
             val |-> LET nobs == RollCount(window, t)
                     IN  IF nobs >= window /\ nobs > 1
                         THEN FDiv(FSub(sxx[t], FDiv(FMul(sx[t], sx[t]), F(nobs))), F(nobs - 1))
                         ELSE NaN]])

\* A float of the form n/d + sg * sqrt(r), r a non-negative rational: the
\* values a band takes.  sqrt is kept symbolic so that the model stays exact.
Surd(mid, sg, r) == [k |-> "num", n |-> mid.n, d |-> mid.d, sg |-> sg, r |-> r]

\* s.rolling(window=window).std(): the square root of the rolling variance.
rolling_std(s, window) ==
    LET v == rolling_var(s, window)
    IN  Materialize([t \in 1..Len(s) |->
            [idx |-> s[t].idx,
             val |-> IF IsNum(v[t].val) THEN Surd(F(0), 1, v[t].val) ELSE NaN]])

\* std_dev * num_std
SurdScale(x, c) == IF IsNum(x) THEN Surd(F(0), x.sg, FMul(x.r, F(c * c))) ELSE NaN
\* middle + width, middle - width
SurdAdd(mid, w) == IF IsNum(mid) /\ IsNum(w) THEN Surd(mid, w.sg, w.r) ELSE NaN
SurdSub(mid, w) == IF IsNum(mid) /\ IsNum(w) THEN Surd(mid, -w.sg, w.r) ELSE NaN

\* s.ewm(span=span, adjust=False).mean(), computed in one pass as pandas does:
\* y[0] = x[0], y[t] = (1 - alpha) * y[t-1] + alpha * x[t], alpha = 2/(span+1).
EwmStep(prev, x, alpha) ==
    Append(prev,
           [idx |-> x.idx,
            val |-> FAdd(FMul(FSub(F(1), alpha), prev[Len(prev)].val),
                         FMul(alpha, x.val))])

\* The first t values of the EMA.
RECURSIVE EwmUpTo(_, _, _)
EwmUpTo(s, alpha, t) ==
    IF t = 1 THEN <<s[1]>> ELSE EwmStep(EwmUpTo(s, alpha, t - 1), s[t], alpha)

ewm_mean(s, span) == IF Len(s) = 0 THEN << >> ELSE EwmUpTo(s, Rat(2, span + 1), Len(s))

\* s.diff(1)
diff(s) ==
    Materialize([t \in 1..Len(s) |->
        [idx |-> s[t].idx,
         val |-> IF t = 1 THEN NaN ELSE FSub(s[t].val, s[t - 1].val)]])

\* s.where(s > 0, other) and s.where(s < 0, other): NaN compares False.
where_pos(s, other) ==
    Materialize([t \in 1..Len(s) |->
        [idx |-> s[t].idx, val |-> IF FLt(F(0), s[t].val) THEN s[t].val ELSE other]])
where_neg(s, other) ==
    Materialize([t \in 1..Len(s) |->
        [idx |-> s[t].idx, val |-> IF FLt(s[t].val, F(0)) THEN s[t].val ELSE other]])

\* s.fillna(v)
fillna(s, v) ==
    Materialize([t \in 1..Len(s) |-> [idx |-> s[t].idx, val |-> IF isna(s[t].val) THEN v ELSE s[t].val]])

\* s.replace([np.inf, -np.inf], np.nan)
replace_inf(s) ==
    Materialize([t \in 1..Len(s) |->
        [idx |-> s[t].idx,
         val |-> IF s[t].val.k \in {"inf", "ninf"} THEN NaN ELSE s[t].val]])

\* ------------------------------------------------------- indicator engine
calculate_bollinger_bands(data, window, num_std) ==
    LET close_price == Column(data)
        middle_band == rolling_mean(close_price, window, window)
        std_dev == rolling_std(close_price, window)
        upper_band == Materialize([t \in 1..Len(data) |->
                         [idx |-> middle_band[t].idx,
                          val |-> SurdAdd(middle_band[t].val, SurdScale(std_dev[t].val, num_std))]])
        lower_band == Materialize([t \in 1..Len(data) |->
                         [idx |-> middle_band[t].idx,
                          val |-> SurdSub(middle_band[t].val, SurdScale(std_dev[t].val, num_std))]])
    IN  [middle |-> middle_band, upper |-> upper_band, lower |-> lower_band]

\* Mutant of calculate_macd: the histogram is taken the other way round.
calculate_macd_swapped(data, fast_period, slow_period, signal_period) ==
    LET close_price == Column(data)
        ema_fast == ewm_mean(close_price, fast_period)
        ema_slow == ewm_mean(close_price, slow_period)
        macd_line == SeriesSub(ema_fast, ema_slow)
        signal_line == ewm_mean(macd_line, signal_period)
        histogram == SeriesSub(signal_line, macd_line)
    IN  [macd_line |-> macd_line, signal_line |-> signal_line, histogram |-> histogram]

calculate_macd(data, fast_period, slow_period, signal_period) ==
    LET close_price == Column(data)
        ema_fast == ewm_mean(close_price, fast_period)
        ema_slow == ewm_mean(close_price, slow_period)
        macd_line == SeriesSub(ema_fast, ema_slow)
        signal_line == ewm_mean(macd_line, signal_period)
        histogram == SeriesSub(macd_line, signal_line)
    IN  [macd_line |-> macd_line, signal_line |-> signal_line, histogram |-> histogram]

\* Mutant of rsi_avg_gain: the rolling mean waits for a full window.
rsi_avg_gain_strict(data, window) ==
    LET delta == diff(Column(data))
        gain == fillna(where_pos(delta, F(0)), F(0))
    IN  rolling_mean(gain, window, window)

\* The rolling averages of calculate_rsi.
rsi_avg_gain(data, window) ==
    LET delta == diff(Column(data))
        gain == fillna(where_pos(delta, F(0)), F(0))
    IN  rolling_mean(gain, window, 1)

rsi_avg_loss(data, window) ==
    LET delta == diff(Column(data))
        loss == SeriesNeg(fillna(where_neg(delta, F(0)), F(0)))
    IN  rolling_mean(loss, window, 1)

\* Mutant of calculate_rsi: the infinite RS of a window without losses is
\* cleaned to NaN before RSI is computed from it.
calculate_rsi_clean_rs(data, window) ==
    LET avg_gain == rsi_avg_gain(data, window)
        avg_loss == rsi_avg_loss(data, window)
        rs == replace_inf(SeriesDiv(avg_gain, avg_loss))
        rsi == ScalarSub(F(100), ScalarDiv(F(100), ScalarAdd(F(1), rs)))
    IN  rsi

calculate_rsi(data, window) ==
    LET avg_gain == rsi_avg_gain(data, window)
        avg_loss == rsi_avg_loss(data, window)
        rs == SeriesDiv(avg_gain, avg_loss)
        rsi == ScalarSub(F(100), ScalarDiv(F(100), ScalarAdd(F(1), rs)))
    IN  rsi

\* ------------------------------------------------------- dates and dicts
\* A datetime.date is its day ordinal; an Optional[date] query parameter is
\* [given |-> FALSE, day |-> 0] for None and [given |-> TRUE, day |-> ordinal]
\* otherwise.  A pandas Timestamp of the index is
\* [day |-> ordinal, hms |-> time of day].  strftime('%Y-%m-%d') keeps the
\* calendar day and drops the time of day; the string is modelled as
\* [ymd |-> ordinal], which is distinct for distinct calendar days.
strftime(d) == [ymd |-> d]
strftime_ts(ts) == [ymd |-> ts.day]

\* A dict built by inserting items[1], items[2], ... in order: a later item
\* with an equal key overwrites the earlier one.
DictFromItems(items) ==
    [key \in {items[i].key : i \in 1..Len(items)} |->
        LET last == CHOOSE i \in 1..Len(items) :
                        /\ items[i].key = key
                        /\ \A j \in 1..Len(items) : items[j].key = key => j <= i
        IN  items[last].value]

\* The info mapping is a set of <<key, value>> pairs with distinct keys (all
\* values strings).  mapping.get(key): None when the key is missing.
dict_get(mapping, key) ==
    IF \E p \in mapping : p[1] = key
    THEN (CHOOSE p \in mapping : p[1] = key)[2]
    ELSE None

\* Python truth value of a dict entry: None and "" are falsy.
truthy(v) == v # None /\ v # ""

\* JSON null
Null == [k |-> "null"]

\* ------------------------------------------------------ external provider
\* yfinance is outside the repository: given (symbol, start, end) it answers
\* with a time-ordered table (possibly empty) or raises; given a symbol it
\* answers with an info mapping (possibly empty) or raises.

\* Markets are closed on two days of every seven.
RECURSIVE NextTradingDay(_)
NextTradingDay(d) == IF d % 7 \in {5, 6} THEN NextTradingDay(d + 1) ELSE d

RECURSIVE TradingDay(_, _)
TradingDay(first, i) ==
    IF i = 1 THEN NextTradingDay(first)
    ELSE NextTradingDay(TradingDay(first, i - 1) + 1)

\* One bar per trading day from `first` on, dates ascending and distinct.
Bars(first, closes) ==
    Materialize([i \in 1..Len(closes) |->
        [Date |-> [day |-> TradingDay(first, i), hms |-> 0], Close |-> F(closes[i])]])

CloseSeqs == UNION {[1..n -> Prices] : n \in 1..MaxLen}

\* What stock.history(start=..., end=...) may do.
HistoryOutcomes ==
    {[kind |-> "frame", frame |-> Bars(first, closes)] :
        first \in FirstDays, closes \in CloseSeqs}
    \cup {[kind |-> "frame", frame |-> << >>], [kind |-> "raise", frame |-> << >>]}

\* What stock.info may do.
InfoOutcomes(ticker) ==
    { [kind |-> "info",
       info |-> {<<"longName", "Acme Corp">>, <<"symbol", ticker>>,
                 <<"sector", "Tech">>, <<"marketCap", "5B">>, <<"zip", "10001">>}],
      [kind |-> "info", info |-> {<<"longName", "">>, <<"symbol", ticker>>}],
      [kind |-> "info", info |-> {<<"symbol", ticker>>, <<"sector", "Tech">>}],
      [kind |-> "info", info |-> {}],
      [kind |-> "raise", info |-> {}] }

\* get_stock_data: the table, or a fresh empty DataFrame when it is empty.
get_stock_data(hist) == IF ~empty(hist) THEN hist ELSE << >>

\* get_company_info: stock.info, or {} when reading it raises.
get_company_info(outcome) == IF outcome.kind = "raise" THEN {} ELSE outcome.info

\* --------------------------------------------------------------- responses
\* raise HTTPException(status_code=404, detail=f"{what} '{ticker}'")
NoBody == [kind |-> "none"]
NoDetail == [text |-> "", ticker |-> ""]

\* Mutant of NotFound: the message does not name the symbol.
NotFoundAnonymous(what, ticker) ==
    [status |-> HTTP_NOT_FOUND, detail |-> [text |-> what, ticker |-> ""], body |-> NoBody]

NotFound(what, ticker) ==
    [status |-> HTTP_NOT_FOUND, detail |-> [text |-> what, ticker |-> ticker], body |-> NoBody]

\* return <Response model>(...)
Ok(body) == [status |-> 200, detail |-> NoDetail, body |-> body]

\* An exception of the provider call that the handler does not catch: FastAPI
\* answers 500 Internal Server Error.
Unhandled == [status |-> 500, detail |-> NoDetail, body |-> NoBody]

\* Mutant of DateWindow: a defaulted start is counted back from today, not
\* from the end date in force.
DateWindowFromToday(start_date, end_date, today, days) ==
    LET end == IF ~end_date.given THEN today ELSE end_date.day
        start == IF ~start_date.given THEN today - days ELSE start_date.day
    IN  [start |-> start, end |-> end]

\* The two defaulting statements every dated handler starts with:
\*   if end_date is None: end_date = date.today()
\*   if start_date is None: start_date = end_date - timedelta(days=days)
DateWindow(start_date, end_date, today, days) ==
    LET end == IF ~end_date.given THEN today ELSE end_date.day
        start == IF ~start_date.given THEN end - days ELSE start_date.day
    IN  [start |-> start, end |-> end]

\* The call get_stock_data(ticker, start.strftime(...), end.strftime(...)) makes.
HistoryCall(ticker, w) ==
    [fn |-> "history", ticker |-> ticker, start |-> strftime(w.start), end |-> strftime(w.end)]

InfoCall(ticker) == [fn |-> "info", ticker |-> ticker]

\* Mutant of NoneIfNa: the value is passed on as it is.
NoneIfNaLeak(val) == val

\* None if pd.isna(val) else val
NoneIfNa(val) == IF isna(val) THEN Null ELSE val

\* val if pd.notna(val) and np.isfinite(val) else None
FiniteOrNone(val) == IF notna(val) /\ isfinite(val) THEN val ELSE Null

\* Mutant of SeriesDict: dates without a value are left out of the mapping.
SeriesDictSkipNa(series) ==
    LET HasValue(item) == item.value # Null
    IN  DictFromItems(SelectSeq(Materialize([t \in 1..Len(series) |->
            [key |-> strftime_ts(series[t].idx), value |-> NoneIfNa(series[t].val)]]),
            HasValue))

\* {date.strftime('%Y-%m-%d'): (None if pd.isna(val) else val) for date, val in series.items()}
SeriesDict(series) ==
    DictFromItems(Materialize([t \in 1..Len(series) |->
        [key |-> strftime_ts(series[t].idx), value |-> NoneIfNa(series[t].val)]]))

\* ---------------------------------------------------------------- handlers
\* Each handler as a function of its parameters and of what the provider
\* does when called; an exception raised by stock.history is caught nowhere.

read_root == Ok([kind |-> "root", message |-> "Welcome to the Quant Dashboard API v2!"])

InfoKeys == {"longName", "symbol", "sector", "industry", "country", "website",
             "marketCap", "longBusinessSummary"}

get_stock_info(ticker, outcome) ==
    LET info == get_company_info(outcome)
    IN  IF info = {} \/ ~truthy(dict_get(info, "longName"))
        THEN NotFound("Info not found for ticker", ticker)
        ELSE Ok([kind |-> "info", ticker |-> ticker,
                 info |-> {<<key, dict_get(info, key)>> : key \in InfoKeys}])

get_historical_data(ticker, outcome) ==
    IF outcome.kind = "raise" THEN Unhandled
    ELSE LET data == get_stock_data(outcome.frame)
         IN  IF empty(data)
             THEN NotFound("No historical data found for ticker", ticker)
             ELSE Ok([kind |-> "history", ticker |-> ticker,
                      history |-> Materialize([i \in 1..Len(data) |->
                                      [Date |-> strftime_ts(data[i].Date),
                                       Close |-> data[i].Close]])])

get_sma(ticker, window, outcome) ==
    IF outcome.kind = "raise" THEN Unhandled
    ELSE LET data == get_stock_data(outcome.frame)
         IN  IF empty(data)
             THEN NotFound("No data for SMA calculation for ticker", ticker)
             ELSE LET sma_series == replace_inf(rolling_mean(Column(data), window, window))
                  IN  Ok([kind |-> "sma", ticker |-> ticker, sma |-> SeriesDict(sma_series)])

get_bollinger_bands(ticker, window, num_std, outcome) ==
    IF outcome.kind = "raise" THEN Unhandled
    ELSE LET data == get_stock_data(outcome.frame)
         IN  IF empty(data)
             THEN NotFound("No data for Bollinger Bands calculation for ticker", ticker)
             ELSE LET b == calculate_bollinger_bands(data, window, num_std)
                      result == DictFromItems(Materialize([t \in 1..Len(b.middle) |->
                          [key |-> strftime_ts(b.middle[t].idx),
                           value |-> [Middle_Band |-> FiniteOrNone(b.middle[t].val),
                                      Upper_Band |-> FiniteOrNone(b.upper[t].val),
                                      Lower_Band |-> FiniteOrNone(b.lower[t].val)]]]))
                  IN  Ok([kind |-> "bbands", ticker |-> ticker, bands |-> result])

get_macd(ticker, fast, slow, signal, outcome) ==
    IF outcome.kind = "raise" THEN Unhandled
    ELSE LET data == get_stock_data(outcome.frame)
         IN  IF empty(data)
             THEN NotFound("No data for MACD calculation for ticker", ticker)
             ELSE LET m == calculate_macd(data, fast, slow, signal)
                      result == DictFromItems(Materialize([t \in 1..Len(m.macd_line) |->
                          [key |-> strftime_ts(m.macd_line[t].idx),
                           value |-> [MACD_Line |-> FiniteOrNone(m.macd_line[t].val),
                                      Signal_Line |-> FiniteOrNone(m.signal_line[t].val),
                                      Histogram |-> FiniteOrNone(m.histogram[t].val)]]]))
                  IN  Ok([kind |-> "macd", ticker |-> ticker, macd |-> result])

get_rsi(ticker, window, outcome) ==
    IF outcome.kind = "raise" THEN Unhandled
    ELSE LET data == get_stock_data(outcome.frame)
         IN  IF empty(data)
             THEN NotFound("No data for RSI calculation for ticker", ticker)
             ELSE LET rsi_series == replace_inf(calculate_rsi(data, window))
                  IN  Ok([kind |-> "rsi", ticker |-> ticker, rsi |-> SeriesDict(rsi_series)])

\* ------------------------------------------------------------------- state
\* The service keeps nothing between requests.  The state is that of one
\* worker: the request it is serving, the provider calls made for it, what the
\* provider did and the response built; all of it is request-local and is
\* dropped when the response has been sent (Idle).
VARIABLES request, calls, upstream, response

vars == <<request, calls, upstream, response>>

Request(handler, ticker, window, num_std, fast, slow, signal, start_date, end_date, today) ==
    [handler |-> handler, ticker |-> ticker, window |-> window, num_std |-> num_std,
     fast |-> fast, slow |-> slow, signal |-> signal,
     start_date |-> start_date, end_date |-> end_date, today |-> today]

NoRequest == Request("none", "", 0, 0, 0, 0, 0, NoDate, NoDate, 0)
NoResponse == [status |-> 0, detail |-> NoDetail, body |-> NoBody]

Idle == request = NoRequest

Init ==
    /\ request = NoRequest
    /\ calls = << >>
    /\ upstream = [kind |-> "none"]
    /\ response = NoResponse

\* The response leaves and the request's data is discarded.
SendResponse ==
    /\ ~Idle
    /\ request' = NoRequest
    /\ calls' = << >>
    /\ upstream' = [kind |-> "none"]
    /\ response' = NoResponse

ReadRoot ==
    /\ Idle
    /\ request' = Request("root", "", 0, 0, 0, 0, 0, NoDate, NoDate, 0)
    /\ calls' = << >>
    /\ upstream' = [kind |-> "none"]
    /\ response' = read_root

GetStockInfo ==
    /\ Idle
    /\ \E ticker \in Tickers :
       \E outcome \in InfoOutcomes(ticker) :
        /\ request' = Request("info", ticker, 0, 0, 0, 0, 0, NoDate, NoDate, 0)
        /\ calls' = <<InfoCall(ticker)>>
        /\ upstream' = outcome
        /\ response' = get_stock_info(ticker, outcome)

GetHistoricalData ==
    /\ Idle
    /\ \E ticker \in Tickers, start_date \in StartDates, end_date \in EndDates,
       today \in Todays, outcome \in HistoryOutcomes :
        /\ request' = Request("history", ticker, 0, 0, 0, 0, 0, start_date, end_date, today)
        /\ calls' = <<HistoryCall(ticker, DateWindow(start_date, end_date, today, DefaultDays))>>
        /\ upstream' = outcome
        /\ response' = get_historical_data(ticker, outcome)

GetSma ==
    /\ Idle
    /\ \E ticker \in Tickers, window \in 1..MaxWindow, start_date \in StartDates,
       end_date \in EndDates, today \in Todays, outcome \in HistoryOutcomes :
        /\ request' = Request("sma", ticker, window, 0, 0, 0, 0, start_date, end_date, today)
        /\ calls' = <<HistoryCall(ticker,
                        DateWindow(start_date, end_date, today, DefaultDays + window))>>
        /\ upstream' = outcome
        /\ response' = get_sma(ticker, window, outcome)

GetBollingerBands ==
    /\ Idle
    /\ \E ticker \in Tickers, window \in 1..MaxWindow, num_std \in NumStds,
       start_date \in StartDates, end_date \in EndDates, today \in Todays,
       outcome \in HistoryOutcomes :
        /\ request' = Request("bbands", ticker, window, num_std, 0, 0, 0,
                              start_date, end_date, today)
        /\ calls' = <<HistoryCall(ticker,
                        DateWindow(start_date, end_date, today, DefaultDays + window))>>
        /\ upstream' = outcome
        /\ response' = get_bollinger_bands(ticker, window, num_std, outcome)

GetMacd ==
    /\ Idle
    /\ \E ticker \in Tickers, fast \in 1..MaxSpan, slow \in 1..MaxSpan, signal \in 1..MaxSpan,
       start_date \in StartDates, end_date \in EndDates, today \in Todays,
       outcome \in HistoryOutcomes :
        /\ request' = Request("macd", ticker, 0, 0, fast, slow, signal,
                              start_date, end_date, today)
        /\ calls' = <<HistoryCall(ticker,
                        DateWindow(start_date, end_date, today, DefaultDays + slow))>>
        /\ upstream' = outcome
        /\ response' = get_macd(ticker, fast, slow, signal, outcome)

GetRsi ==
    /\ Idle
    /\ \E ticker \in Tickers, window \in 1..MaxWindow, start_date \in StartDates,
       end_date \in EndDates, today \in Todays, outcome \in HistoryOutcomes :
        /\ request' = Request("rsi", ticker, window, 0, 0, 0, 0, start_date, end_date, today)
        /\ calls' = <<HistoryCall(ticker,
                        DateWindow(start_date, end_date, today, DefaultDays + window))>>
        /\ upstream' = outcome
        /\ response' = get_rsi(ticker, window, outcome)

Next ==
    \/ ReadRoot
    \/ GetStockInfo
    \/ GetHistoricalData
    \/ GetSma
    \/ GetBollingerBands
    \/ GetMacd
    \/ GetRsi
    \/ SendResponse

Spec == Init /\ [][Next]_vars

\* ------------------------------------------------------------------ claims
\* What the claims below read from the state.
frame == upstream.frame
Close(t) == frame[t].Close
DateKey(t) == [ymd |-> frame[t].Date.day]
DateKeys == {DateKey(t) : t \in 1..Len(frame)}
Served(handler) == request.handler = handler /\ response.status = 200
Max(a, b) == IF a > b THEN a ELSE b

\* Sum of the integer closes frame[lo..hi].
RECURSIVE SumCloses(_, _)
SumCloses(lo, hi) == IF lo > hi THEN 0 ELSE Close(hi).n + SumCloses(lo, hi - 1)

\* C1: in a successful SMA response the value at (0-indexed) position t is the
\* arithmetic mean of closes[t-window+1..t] when t >= window-1 and null when
\* t < window-1; no partial-window average is returned.
C1_SmaIsStrictWindowMean ==
    Served("sma") =>
        \A t \in 1..Len(frame) :
            LET val == response.body.sma[DateKey(t)]
                window == request.window
            IN  IF t - 1 >= window - 1
                THEN val = Rat(SumCloses(t - window + 1, t), window)
                ELSE val = Null

\* closes 10, 11, 12, 11 with window 3: null, null, 11, 34/3.
C1_Witness ==
    /\ Served("sma")
    /\ request.window = 3
    /\ Len(frame) = 4
    /\ <<Close(1), Close(2), Close(3), Close(4)>> = <<F(10), F(11), F(12), F(11)>>
    /\ response.body.sma[DateKey(1)] = Null
    /\ response.body.sma[DateKey(2)] = Null
    /\ response.body.sma[DateKey(3)] = F(11)
    /\ response.body.sma[DateKey(4)] = Rat(34, 3)

\* The date-keyed mapping of a successful indicator response.
IndicatorHandlers == {"sma", "bbands", "macd", "rsi"}
Mapping ==
    CASE request.handler = "sma" -> response.body.sma
      [] request.handler = "bbands" -> response.body.bands
      [] request.handler = "macd" -> response.body.macd
      [] request.handler = "rsi" -> response.body.rsi

\* C2: in every successful indicator response (SMA, Bollinger, MACD, RSI) the
\* date keys of the mapping are exactly the dates of the price series the
\* provider returned: none missing (null-valued dates included), none extra.
C2_KeysAreSeriesDates ==
    (request.handler \in IndicatorHandlers /\ response.status = 200) =>
        DOMAIN Mapping = DateKeys

\* A Bollinger response over three bars with window 3: the first date is a
\* key although all its fields are null.
C2_Witness ==
    /\ Served("bbands")
    /\ request.window = 3
    /\ Len(frame) = 3
    /\ Cardinality(DOMAIN response.body.bands) = 3
    /\ response.body.bands[DateKey(1)].Middle_Band = Null
    /\ response.body.bands[DateKey(3)].Middle_Band # Null

\* Every float or null a successful indicator response carries.
WireValues ==
    CASE request.handler = "sma" -> {response.body.sma[key] : key \in DOMAIN response.body.sma}
      [] request.handler = "rsi" -> {response.body.rsi[key] : key \in DOMAIN response.body.rsi}
      [] request.handler = "bbands" ->
            UNION {{response.body.bands[key].Middle_Band,
                    response.body.bands[key].Upper_Band,
                    response.body.bands[key].Lower_Band} : key \in DOMAIN response.body.bands}
      [] request.handler = "macd" ->
            UNION {{response.body.macd[key].MACD_Line,
                    response.body.macd[key].Signal_Line,
                    response.body.macd[key].Histogram} : key \in DOMAIN response.body.macd}

NoLossSomeGain(t, window) ==
    LET lo == Max(2, t - window + 1)
    IN  /\ \A i \in lo..t : ~FLt(Close(i), Close(i - 1))
        /\ \E i \in lo..t : FLt(Close(i - 1), Close(i))

\* C4: every non-null RSI value lies in [0, 100], and RSI is the number 100
\* wherever avg_loss is 0 and avg_gain is positive (so on a strictly increasing
\* series at every date after the first).
C4_RsiBoundedAndSaturates ==
    Served("rsi") =>
        \A t \in 1..Len(frame) :
            LET val == response.body.rsi[DateKey(t)]
            IN  /\ val.k = "num" => (0 <= val.n /\ val.n <= 100 * val.d)
                /\ NoLossSomeGain(t, request.window) => val = F(100)

\* A strictly increasing series: 100 at every date after the first.
C4_Witness ==
    /\ Served("rsi")
    /\ Len(frame) = 3
    /\ FLt(Close(1), Close(2)) /\ FLt(Close(2), Close(3))
    /\ response.body.rsi[DateKey(2)] = F(100)
    /\ response.body.rsi[DateKey(3)] = F(100)

\* No close of the window ending at t moved: avg_gain = avg_loss = 0.
FlatWindow(t, window) ==
    \A i \in Max(2, t - window + 1)..t : Close(i) = Close(i - 1)

\* C5 as stated: RSI is null at the first date and only there.
C5_Original_RsiAbsentOnlyAtFirstDate ==
    Served("rsi") =>
        \A t \in 1..Len(frame) : (response.body.rsi[DateKey(t)] = Null) <=> (t = 1)

\* C5 as amended: RSI is null exactly at the dates whose trailing window holds
\* no price change at all (avg_gain = avg_loss = 0, so RS = 0/0); this is always
\* so at the first date, and also at any later date closing a flat window.  At
\* every other date RSI is a number.
C5_RsiAbsentIffFlatWindow ==
    Served("rsi") =>
        \A t \in 1..Len(frame) :
            (response.body.rsi[DateKey(t)] = Null) <=> FlatWindow(t, request.window)

\* A series flat over its first three bars, window 2: null at the third date.
C5_Witness ==
    /\ Served("rsi")
    /\ request.window = 2
    /\ Len(frame) = 4
    /\ Close(1) = Close(2) /\ Close(2) = Close(3) /\ Close(3) # Close(4)
    /\ response.body.rsi[DateKey(3)] = Null
    /\ response.body.rsi[DateKey(4)] # Null

Present(v) == v.k = "num"

\* C6 as stated: for every window >= 1 the three bands at position t are all
\* null when t < window-1 and all present when t >= window-1.
C6_Original_BandsFollowSmaAbsence ==
    Served("bbands") =>
        \A t \in 1..Len(frame) :
            LET b == response.body.bands[DateKey(t)]
                full == t - 1 >= request.window - 1
            IN  /\ Present(b.Middle_Band) <=> full
                /\ Present(b.Upper_Band) <=> full
                /\ Present(b.Lower_Band) <=> full

\* C6 as amended: Middle_Band is present iff t >= window-1; Upper_Band and
\* Lower_Band are present iff t >= window-1 and window >= 2.  With window = 1
\* the sample standard deviation of one close is undefined, so Upper_Band and
\* Lower_Band are null at every date while Middle_Band is present.
C6_BandsAbsence ==
    Served("bbands") =>
        \A t \in 1..Len(frame) :
            LET b == response.body.bands[DateKey(t)]
                full == t - 1 >= request.window - 1
            IN  /\ Present(b.Middle_Band) <=> full
                /\ Present(b.Upper_Band) <=> (full /\ request.window >= 2)
                /\ Present(b.Lower_Band) <=> (full /\ request.window >= 2)

\* window = 1: the middle band is the close, the outer bands are null.
C6_Witness ==
    /\ Served("bbands")
    /\ request.window = 1
    /\ Len(frame) = 2
    /\ response.body.bands[DateKey(2)].Middle_Band = Close(2)
    /\ response.body.bands[DateKey(2)].Upper_Band = Null
    /\ response.body.bands[DateKey(2)].Lower_Band = Null

\* C7: in a successful MACD response MACD_Line, Signal_Line and Histogram are
\* numbers at every date from the first on, Histogram = MACD_Line - Signal_Line
\* at every date, and at the first date (ema[0] = close[0] for both EMAs) the
\* MACD line and the signal line are 0.
C7_MacdPresentAndHistogram ==
    Served("macd") =>
        /\ \A t \in 1..Len(frame) :
              LET m == response.body.macd[DateKey(t)]
              IN  /\ Present(m.MACD_Line)
                  /\ Present(m.Signal_Line)
                  /\ Present(m.Histogram)
                  /\ m.Histogram = FSub(m.MACD_Line, m.Signal_Line)
        /\ response.body.macd[DateKey(1)].MACD_Line = F(0)
        /\ response.body.macd[DateKey(1)].Signal_Line = F(0)

\* fast = 1, slow = 2, signal = 2 over 10, 11: the second date has MACD 1/3,
\* signal 2/9 and histogram 1/9.
C7_Witness ==
    /\ Served("macd")
    /\ request.fast = 1 /\ request.slow = 2 /\ request.signal = 2
    /\ Len(frame) = 2
    /\ Close(1) = F(10) /\ Close(2) = F(11)
    /\ response.body.macd[DateKey(2)].MACD_Line = Rat(1, 3)
    /\ response.body.macd[DateKey(2)].Signal_Line = Rat(2, 9)
    /\ response.body.macd[DateKey(2)].Histogram = Rat(1, 9)

\* The provider answered with nothing: an empty table, or an info mapping
\* that is empty or carries no (non-empty) longName.
HistoryHandlers == {"history"} \cup IndicatorHandlers
EmptyProviderResult ==
    \/ /\ request.handler \in HistoryHandlers
       /\ upstream.kind = "frame"
       /\ Len(upstream.frame) = 0
    \/ /\ request.handler = "info"
       /\ upstream.kind = "info"
       /\ ~\E p \in upstream.info : p[1] = "longName" /\ p[2] # ""

\* C8: whenever the provider returns an empty result the request fails with
\* 404 NotFound, the message names the requested symbol, and no payload is
\* produced (history, the four indicators, and info without a longName).
C8_EmptyResultIsNotFound ==
    EmptyProviderResult =>
        /\ response.status = HTTP_NOT_FOUND
        /\ response.detail.ticker = request.ticker
        /\ response.detail.text # ""
        /\ response.body = NoBody

\* An empty table behind a MACD request for MSFT: 404 naming MSFT.
C8_Witness ==
    /\ request.handler = "macd"
    /\ request.ticker = "MSFT"
    /\ upstream.kind = "frame"
    /\ Len(upstream.frame) = 0
    /\ response.status = HTTP_NOT_FOUND
    /\ response.detail.ticker = "MSFT"
    /\ response.body = NoBody

\* C9 as stated: when the provider raises, every handler answers with an
\* upstream failure that is not NotFound, having called the provider once.
C9_ProviderErrorIsUpstreamFailure ==
    upstream.kind = "raise" =>
        /\ response.status # HTTP_NOT_FOUND
        /\ response.status # 200
        /\ Len(calls) = 1

\* Lookback padding of the default window, per handler.
Pad ==
    CASE request.handler \in {"sma", "bbands", "rsi"} -> request.window
      [] request.handler = "macd" -> request.slow
      [] OTHER -> 0

\* C10 as stated: when either bound is omitted the window passed to the
\* provider is [today - (365 + pad), today].
C10_Original_TrailingWindowEndsToday ==
    (request.handler \in HistoryHandlers
        /\ (~request.start_date.given \/ ~request.end_date.given)) =>
        /\ calls[1].start = [ymd |-> request.today - (DefaultDays + Pad)]
        /\ calls[1].end = [ymd |-> request.today]

\* C10 as amended: each bound is defaulted on its own.  Both omitted: the
\* window is [today - (365 + pad), today].  Only end omitted: [start, today].
\* Only start omitted: [end - (365 + pad), end], which ends at the given end,
\* not today.  pad is 0 for history, window for SMA, Bollinger and RSI, slow
\* for MACD.
C10_DefaultWindow ==
    request.handler \in HistoryHandlers =>
        LET s == request.start_date
            e == request.end_date
            days == DefaultDays + Pad
        IN  /\ Len(calls) = 1
            /\ (~s.given /\ ~e.given) =>
                  /\ calls[1].start = [ymd |-> request.today - days]
                  /\ calls[1].end = [ymd |-> request.today]
            /\ (s.given /\ ~e.given) =>
                  /\ calls[1].start = [ymd |-> s.day]
                  /\ calls[1].end = [ymd |-> request.today]
            /\ (~s.given /\ e.given) =>
                  /\ calls[1].start = [ymd |-> e.day - days]
                  /\ calls[1].end = [ymd |-> e.day]

\* A MACD request with only end_date given: the window ends at end_date and
\* starts 365 + slow days before it.
C10_Witness ==
    /\ request.handler = "macd"
    /\ request.slow = 2
    /\ ~request.start_date.given
    /\ request.end_date = SomeDate(900)
    /\ calls = <<[fn |-> "history", ticker |-> request.ticker,
                  start |-> [ymd |-> 533], end |-> [ymd |-> 900]]>>

=============================================================================
